---- MODULE Spec2Model ----
(***************************************************************************)
(* A model of PhyloRank's command layer (phylorank/main.py, OptionsParser) *)
(* and of the RED engine it drives.                                        *)
(*                                                                         *)
(* Python strings are sequences of one-character strings, so that          *)
(* concatenation, join, split, slicing and startswith are computed and not *)
(* assumed.  One run of the program is one behaviour: Init fixes the       *)
(* command line and the content of the input files, parse_options          *)
(* dispatches, and the selected handler runs to its return, its sys.exit   *)
(* or its uncaught exception.                                              *)
(***************************************************************************)
EXTENDS Integers, Sequences, FiniteSets, TLC

\* ------------------------------------------------------------------ bounds
\* largest number of leaves of an input tree of append
MaxLeaves == 2
\* largest count returned by BranchLengthDistribution.optimal
MaxTaxa == 3
\* largest number of rows of a taxonomy file
MaxRows == 2
\* largest number of labelled nodes of an input tree of rank_res
MaxNodes == 2

\* largest number of nodes of a tree given to the RED engine
MaxRedNodes == 4
\* largest branch length of a tree given to the RED engine
MaxLength == 2

\* ----------------------------------------------------------------- strings
Min(a, b) == IF a < b THEN a ELSE b

\* s[0:n]
Take(s, n) == SubSeq(s, 1, Min(n, Len(s)))

\* s[n:]
Drop(s, n) == SubSeq(s, n + 1, Len(s))

\* s.startswith(p)
StartsWith(s, p) == Len(s) >= Len(p) /\ SubSeq(s, 1, Len(p)) = p

\* p in s, for strings
Contains(s, p) == \E i \in 1..(Len(s) + 1) : StartsWith(Drop(s, i - 1), p)

\* position of the first c in s, 0 when there is none
Find(s, c) ==
  IF \E i \in 1..Len(s) : s[i] = c
  THEN CHOOSE i \in 1..Len(s) : s[i] = c /\ \A j \in 1..(i - 1) : s[j] # c
  ELSE 0

\* s.split(c)
RECURSIVE Split(_, _)
Split(s, c) ==
  LET k == Find(s, c) IN
  IF k = 0 THEN <<s>> ELSE <<SubSeq(s, 1, k - 1)>> \o Split(Drop(s, k), c)

\* c.join(parts)
RECURSIVE Join(_, _)
Join(parts, c) ==
  IF parts = <<>> THEN <<>>
  ELSE IF Len(parts) = 1 THEN parts[1]
  ELSE parts[1] \o <<c>> \o Join(Tail(parts), c)

\* s.strip(), for the blank
RECURSIVE Strip(_)
Strip(s) ==
  IF s = <<>> THEN s
  ELSE IF s[1] = " " THEN Strip(Tail(s))
  ELSE IF s[Len(s)] = " " THEN Strip(SubSeq(s, 1, Len(s) - 1))
  ELSE s

\* the code point order of the characters the model uses
Ord(c) ==
  CASE c = " " -> 32
    [] c = "0" -> 48
    [] c = "9" -> 57
    [] c = ":" -> 58
    [] c = ";" -> 59
    [] c = "A" -> 65
    [] c = "B" -> 66
    [] c = "_" -> 95
    [] c = "a" -> 97
    [] c = "b" -> 98
    [] c = "c" -> 99
    [] c = "d" -> 100
    [] c = "f" -> 102
    [] c = "g" -> 103
    [] c = "o" -> 111
    [] c = "p" -> 112
    [] c = "s" -> 115
    [] c = "|" -> 124
    [] OTHER -> 127

\* s < t, for strings
RECURSIVE StrLess(_, _)
StrLess(s, t) ==
  IF t = <<>> THEN FALSE
  ELSE IF s = <<>> THEN TRUE
  ELSE IF s[1] = t[1] THEN StrLess(Tail(s), Tail(t))
  ELSE Ord(s[1]) < Ord(t[1])

\* sorted(S), for a set of strings
RECURSIVE Sorted(_)
Sorted(S) ==
  IF S = {} THEN <<>>
  ELSE LET m == CHOOSE x \in S : \A y \in S \ {x} : StrLess(x, y)
       IN <<m>> \o Sorted(S \ {m})

\* ------------------------------------------------------------- rank schema
\* Taxonomy.rank_prefixes
rank_prefixes ==
  << <<"d", "_", "_">>, <<"p", "_", "_">>, <<"c", "_", "_">>, <<"o", "_", "_">>,
     <<"f", "_", "_">>, <<"g", "_", "_">>, <<"s", "_", "_">> >>

\* Taxonomy.rank_labels
rank_labels ==
  <<"domain", "phylum", "class", "order", "family", "genus", "species">>

\* Taxonomy.rank_index[prefix], counted from 0 as in the code
rank_index(prefix) ==
  (CHOOSE i \in 1..Len(rank_prefixes) : rank_prefixes[i] = prefix) - 1

\* the value None of a label or of a parsed field
None == <<"<None>">>

\* ------------------------------------------------------------------ inputs
\* a rank string: prefix followed by the name (empty for an unnamed rank)
R(i, name) == rank_prefixes[i] \o name

\* a lineage with the given names, one per rank from the domain down
Lineage(names) == [i \in 1..Len(names) |-> R(i, names[i])]

nA == <<"A">>
nB == <<"B">>
nAa == <<"A", " ", "a">>
nAb == <<"A", " ", "b">>
nBa == <<"B", " ", "a">>

\* complete lineages
LinA == Lineage(<<nA, nA, nA, nA, nA, nA, nAa>>)
LinAb == Lineage(<<nA, nA, nA, nA, nA, nA, nAb>>)
LinB == Lineage(<<nA, nA, nA, nA, nB, nB, nBa>>)
\* genus A below family B: with LinA, genus A has two parents
LinTwoParents == Lineage(<<nA, nA, nA, nA, nB, nA, nAa>>)
\* unnamed genus and species
LinNoGenus == Lineage(<<nA, nA, nA, nA, nA, <<>>, <<>>>>)
\* a sole representative of a new phylum
LinNovel == Lineage(<<nA, <<>>, <<>>, <<>>, <<>>, <<>>, <<>>>>)
\* 4 of the 7 rank fields
LinShort == Lineage(<<nA, nA, nA, nA>>)
\* phylum and class exchanged
LinBadPrefix == <<R(1, nA), R(3, nA), R(2, nA), R(4, nA), R(5, nA), R(6, nA), R(7, nAa)>>
\* a species name that is no binomial
LinBadSpecies == Lineage(<<nA, nA, nA, nA, nA, nA, nA>>)

\* the genome identifier of the k-th row of a taxonomy file
GenomeId(k) == <<<<"a">>, <<"b">>, <<"c">>, <<"d">>>>[k]

\* the taxonomy files of at most n rows with lineages from pool
TaxFiles(pool, n) ==
  UNION {[1..k -> pool] : k \in 0..n}

\* a row of the file as the text of its line
Line(k, taxa) == GenomeId(k) \o <<"\t">> \o Join(taxa, ";") \o <<"\n">>

\* Taxonomy().read: genome identifier -> list of rank strings
TaxonomyRead(file) ==
  [id \in {GenomeId(k) : k \in 1..Len(file)} |->
     file[CHOOSE k \in 1..Len(file) : GenomeId(k) = id]]

Commands ==
  {"outliers", "decorate", "scale", "tree_diff", "pull", "validate", "append",
   "taxon_stats", "robustness_plot", "dist_plot", "rd_ranks", "bl_dist",
   "bl_optimal", "bl_decorate", "bl_table", "rank_res"}

\* a name that is no command
UnknownCommands == {"bl_plot"}

\* the options guarded by `if options.x:` in the handlers
OptionalPaths == {"plot_taxa_file", "trusted_taxa_file"}

\* the input files a command's handler or component reads
InputPaths(cmd) ==
  CASE cmd = "outliers" ->
         {"input_tree", "taxonomy_file", "plot_taxa_file", "trusted_taxa_file"}
    [] cmd = "scale" -> {"input_tree", "taxonomy_file", "trusted_taxa_file"}
    [] cmd = "tree_diff" -> {"input_tree1", "input_tree2"}
    [] cmd = "dist_plot" -> {"input_tree", "plot_taxa_file", "trusted_taxa_file"}
    [] cmd = "decorate" -> {"input_tree"}
    [] cmd = "pull" -> {"input_tree"}
    [] cmd = "validate" -> {"taxonomy_file"}
    [] cmd = "append" -> {"input_tree", "taxonomy_file"}
    [] cmd = "taxon_stats" -> {"taxonomy_file"}
    [] cmd = "robustness_plot" ->
         {"full_tree_file", "derep_tree_file", "taxonomy_file"}
    [] cmd = "rd_ranks" -> {"input_tree"}
    [] cmd = "bl_dist" -> {"input_tree", "trusted_taxa_file", "taxonomy_file"}
    [] cmd = "bl_optimal" -> {"input_tree"}
    [] cmd = "bl_decorate" -> {"input_tree", "taxonomy_file"}
    [] cmd = "bl_table" -> {"input_tree", "taxon_category"}
    [] cmd = "rank_res" -> {"input_tree", "taxonomy_file"}
    [] OTHER -> {}

\* the flags of the command line that a handler reads
Flags ==
  {"no_percentile", "no_relative_divergence", "no_prediction", "no_prefix",
   "no_all_ranks", "no_hierarhcy", "no_species", "no_rank_fill", "taxa_file"}

FlagsOf(cmd) ==
  CASE cmd = "decorate" -> {"no_percentile", "no_relative_divergence", "no_prediction"}
    [] cmd = "validate" -> {"no_prefix", "no_all_ranks", "no_hierarhcy", "no_species"}
    [] cmd = "pull" -> {"no_rank_fill"}
    [] cmd = "rank_res" -> {"taxa_file"}
    [] OTHER -> {}

\* the command lines of a command: the flags set and the optional files given
OptionsOf(cmd) ==
  {[subparser_name |-> cmd, set |-> s, given |-> g] :
     s \in SUBSET FlagsOf(cmd), g \in SUBSET (InputPaths(cmd) \cap OptionalPaths)}

\* a node of a tree
Node(label, leaf) == [label |-> label, is_leaf |-> leaf]

\* a tree as its nodes in preorder, the seed node first
seed_node == Node(None, FALSE)

\* the trees of append: a seed node over at most n leaves
LeafLabels == {<<"a">>, <<"b">>, <<"c">>}

AppendTrees(n) ==
  UNION {{<<seed_node>> \o [i \in 1..k |-> Node(f[i], TRUE)] : f \in [1..k -> LeafLabels]} :
           k \in 1..n}

\* the results of BranchLengthDistribution.optimal
Optimals(n) ==
  {[optimal_bl |-> 1, correct_taxa |-> c, incorrect_taxa |-> i] : c \in 0..n, i \in 0..n}

NoOptimal == [optimal_bl |-> 0, correct_taxa |-> 0, incorrect_taxa |-> 0]

\* ------------------------------------------------------------------- state
VARIABLES
  input,          \* the command line and the content of the input files
  pc,             \* the position of the program
  checked,        \* the options whose file check_file_exists has seen
  invoked,        \* the handlers parse_options has called, in order
  calls,          \* the calls made to the components, in order
  log,            \* the messages given to the logger, in order
  result,         \* how the process ended: return value, exit status, exception
  tree,           \* the tree in memory (append, rank_res)
  children,       \* taxon_children of taxon_stats
  cur_taxa,       \* the sorted taxa of the rank taxon_stats is writing
  rank_no,        \* the rank taxon_stats is writing, an index of rank_prefixes
  idx,            \* the index of the leaf, node, taxon or line a loop is at
  rank_res,       \* the counts of rank_res: <<rank, lowest rank>> -> count
  out,            \* the rows written to options.output_file
  taxa_out,       \* the rows written to options.taxa_file
  out_tree,       \* the tree written to options.output_tree
  rtree,          \* RED engine: the tree, as parent and branch length per node
  mean_dist,      \* RED engine: per node, <<sum of the distances to its leaves, leaves>>
  rel_dist,       \* RED engine: per node, its RED as <<numerator, denominator>>
  rpc,            \* RED engine: the pass it is in
  rnode           \* RED engine: the node the pass is at

vars ==
  <<input, pc, checked, invoked, calls, log, result, tree, children, cur_taxa,
    rank_no, idx, rank_res, out, taxa_out, out_tree,
    rtree, mean_dist, rel_dist, rpc, rnode>>

redVars == <<rtree, mean_dist, rel_dist, rpc, rnode>>

mainVars ==
  <<input, pc, checked, invoked, calls, log, result, tree, children, cur_taxa,
    rank_no, idx, rank_res, out, taxa_out, out_tree>>

options == input.options

\* a log record: the format string, its string argument, its numbers
Msg(level, msg, text, nums) ==
  [level |-> level, msg |-> msg, text |-> text, nums |-> nums]

Running == [kind |-> "running", value |-> 0, exc |-> "none"]
Returned(v) == [kind |-> "return", value |-> v, exc |-> "none"]
\* sys.exit(v): the status of the process is v modulo 256
Exited(v) == [kind |-> "exit", value |-> v % 256, exc |-> "SystemExit"]
Raised(e) == [kind |-> "raise", value |-> 1, exc |-> e]

\* a call of a component: the input files handed over and the other arguments
Call(component, method, files, args) ==
  [component |-> component, method |-> method, files |-> files, args |-> args]

\* the inputs of a command: any set of its input files may be missing; the
\* content of the files varies when they all exist
Inputs(cmd, trees, files, optimals) ==
  {[options |-> o, fs |-> InputPaths(cmd), tree |-> t, taxfile |-> x, optimal |-> r] :
     o \in OptionsOf(cmd), t \in trees, x \in files, r \in optimals}
  \cup
  {[options |-> o, fs |-> f, tree |-> <<seed_node>>, taxfile |-> <<>>, optimal |-> NoOptimal] :
     o \in OptionsOf(cmd), f \in (SUBSET InputPaths(cmd)) \ {InputPaths(cmd)}}

Plain(cmd) == Inputs(cmd, {<<seed_node>>}, {<<>>}, {NoOptimal})

Start(in) ==
  /\ input = in
  /\ pc = "start"
  /\ checked = {}
  /\ invoked = <<>>
  /\ calls = <<>>
  /\ log = <<>>
  /\ result = Running
  /\ tree = in.tree
  /\ children = <<>>
  /\ cur_taxa = <<>>
  /\ rank_no = 0
  /\ idx = 0
  /\ rank_res = <<>>
  /\ out = <<>>
  /\ taxa_out = <<>>
  /\ out_tree = None

\* --------------------------------------------------------- parse_options
\* the chain with the branch of bl_table calling the handler of bl_decorate
HandlerOf_CopyPaste(name) ==
  IF name \in Commands
  THEN (IF name = "bl_table" THEN "bl_decorate" ELSE name)
  ELSE "none"

\* the if/elif chain: the handler called for a subparser name
HandlerOf(name) ==
  IF name = "outliers" THEN "outliers"
  ELSE IF name = "decorate" THEN "decorate"
  ELSE IF name = "scale" THEN "scale"
  ELSE IF name = "tree_diff" THEN "tree_diff"
  ELSE IF name = "pull" THEN "pull"
  ELSE IF name = "validate" THEN "validate"
  ELSE IF name = "append" THEN "append"
  ELSE IF name = "taxon_stats" THEN "taxon_stats"
  ELSE IF name = "robustness_plot" THEN "robustness_plot"
  ELSE IF name = "dist_plot" THEN "dist_plot"
  ELSE IF name = "rd_ranks" THEN "rd_ranks"
  ELSE IF name = "bl_dist" THEN "bl_dist"
  ELSE IF name = "bl_optimal" THEN "bl_optimal"
  ELSE IF name = "bl_decorate" THEN "bl_decorate"
  ELSE IF name = "bl_table" THEN "bl_table"
  ELSE IF name = "rank_res" THEN "rank_res"
  ELSE "none"

\* parse_options up to the call of the handler, or its else branch
parse_options ==
  /\ pc = "start"
  /\ LET h == HandlerOf(options.subparser_name) IN
     IF h # "none"
     THEN /\ invoked' = Append(invoked, h)
          /\ pc' = h
          /\ UNCHANGED <<log, result>>
     ELSE /\ log' = Append(log, Msg("error", "  [Error] Unknown PhyloRank command: %s",
                                    <<options.subparser_name>>, <<>>))
          /\ result' = Exited(0)
          /\ pc' = "exited"
          /\ UNCHANGED invoked
  /\ UNCHANGED redVars
  /\ UNCHANGED <<input, checked, calls, tree, children, cur_taxa, rank_no, idx,
                 rank_res, out, taxa_out, out_tree>>

\* parse_options after the handler has returned: return 0
return_0 ==
  /\ pc = "return"
  /\ pc' = "returned"
  /\ result' = Returned(0)
  /\ UNCHANGED redVars
  /\ UNCHANGED <<input, checked, invoked, calls, log, tree, children, cur_taxa,
                 rank_no, idx, rank_res, out, taxa_out, out_tree>>

\* ------------------------------------------------------ check_file_exists
\* the index of the first file of paths that does not exist, 0 if all exist
FirstMissing(paths) ==
  IF \E k \in 1..Len(paths) : paths[k] \notin input.fs
  THEN CHOOSE k \in 1..Len(paths) :
         paths[k] \notin input.fs /\ \A j \in 1..(k - 1) : paths[j] \in input.fs
  ELSE 0

\* <<x>> if options.x is given, else nothing
IfGiven(x) == IF x \in options.given THEN <<x>> ELSE <<>>

\* the options among xs that hold a path
Given(xs) == {x \in xs : x \notin OptionalPaths \/ x \in options.given}

\* the check_file_exists calls at the head of a handler: all the files exist
\* and the handler goes on, or the first missing one ends the process
check_file_exists(paths, next) ==
  LET k == FirstMissing(paths) IN
  IF k = 0
  THEN /\ checked' = checked \cup {paths[j] : j \in 1..Len(paths)}
       /\ pc' = next
       /\ UNCHANGED <<log, result>>
  ELSE /\ checked' = checked \cup {paths[j] : j \in 1..k}
       /\ log' = Append(log, Msg("error", "Input file does not exists: %s",
                                 <<paths[k]>>, <<>>))
       /\ result' = Exited(1)
       /\ pc' = "exited"

\* a handler that checks its files, calls its component and logs its end
Handler(paths, call, done) ==
  /\ LET k == FirstMissing(paths) IN
     IF k = 0
     THEN /\ checked' = checked \cup {paths[j] : j \in 1..Len(paths)}
          /\ calls' = Append(calls, call)
          /\ log' = log \o done
          /\ pc' = "return"
          /\ UNCHANGED result
     ELSE /\ check_file_exists(paths, "exited")
          /\ UNCHANGED calls
  /\ UNCHANGED redVars
  /\ UNCHANGED <<input, invoked, tree, children, cur_taxa, rank_no, idx,
                 rank_res, out, taxa_out, out_tree>>

Done == <<Msg("info", "Done.", <<>>, <<>>)>>

outliers ==
  /\ pc = "outliers"
  /\ Handler(<<"input_tree">> \o IfGiven("plot_taxa_file") \o IfGiven("trusted_taxa_file"),
             Call("Outliers", "run",
                  Given({"input_tree", "taxonomy_file", "plot_taxa_file", "trusted_taxa_file"}),
                  <<>>),
             Done)

scale ==
  /\ pc = "scale"
  /\ Handler(<<"input_tree">>,
             Call("Outliers", "scale",
                  Given({"input_tree", "taxonomy_file", "trusted_taxa_file"}), <<>>),
             Done)

tree_diff ==
  /\ pc = "tree_diff"
  /\ Handler(<<"input_tree1", "input_tree2">>,
             Call("TreeDiff", "run", {"input_tree1", "input_tree2"}, <<>>),
             Done)

dist_plot ==
  /\ pc = "dist_plot"
  /\ Handler(<<"input_tree">> \o IfGiven("plot_taxa_file") \o IfGiven("trusted_taxa_file"),
             Call("DistributionPlot", "run",
                  Given({"input_tree", "plot_taxa_file", "trusted_taxa_file"}), <<>>),
             Done)

\* the switches with those of the percentile and the prediction exchanged
DecorateArgs_Swapped ==
  <<"no_prediction" \notin options.set,
    "no_relative_divergence" \notin options.set,
    "no_percentile" \notin options.set>>

\* the three switches of the annotation, as decorate hands them to run
DecorateArgs ==
  <<"no_percentile" \notin options.set,
    "no_relative_divergence" \notin options.set,
    "no_prediction" \notin options.set>>

decorate ==
  /\ pc = "decorate"
  /\ Handler(<<"input_tree">>,
             Call("DecorateTree", "run", {"input_tree"}, DecorateArgs),
             <<Msg("info", "Decorated tree written to: %s", <<"output_tree">>, <<>>)>>)

pull ==
  /\ pc = "pull"
  /\ Handler(<<"input_tree">>,
             Call("Taxonomy", "read_from_tree", {"input_tree"},
                  <<"no_rank_fill" \notin options.set>>),
             <<Msg("info", "Taxonomy strings written to: %s", <<"output_file">>, <<>>)>>)

robustness_plot ==
  /\ pc = "robustness_plot"
  /\ Handler(<<>>,
             Call("RobustnessPlot", "run",
                  {"full_tree_file", "derep_tree_file", "taxonomy_file"}, <<>>),
             <<>>)

rd_ranks ==
  /\ pc = "rd_ranks"
  /\ Handler(<<"input_tree">>,
             Call("RdRanks", "run", {"input_tree"}, <<>>),
             Done)

bl_dist ==
  /\ pc = "bl_dist"
  /\ Handler(<<"input_tree">>,
             Call("BranchLengthDistribution", "run",
                  Given({"input_tree", "trusted_taxa_file", "taxonomy_file"}), <<>>),
             Done)

bl_decorate ==
  /\ pc = "bl_decorate"
  /\ Handler(<<"input_tree">>,
             Call("BranchLengthDistribution", "decorate",
                  {"input_tree", "taxonomy_file"}, <<>>),
             Done)

bl_table ==
  /\ pc = "bl_table"
  /\ Handler(<<"input_tree", "taxon_category">>,
             Call("BranchLengthDistribution", "table",
                  {"input_tree", "taxon_category"}, <<>>),
             Done)

\* -------------------------------------------------------------- bl_optimal
\* '%.2f' % (float(n) / d) in hundredths, d > 0: the nearest hundredth, a
\* tie (exact for the eighths) going to the even one
Precision(n, d) ==
  LET q == (100 * n) \div d
      r == (100 * n) % d
  IN IF 2 * r > d \/ (2 * r = d /\ q % 2 = 1) THEN q + 1 ELSE q

bl_optimal ==
  /\ pc = "bl_optimal"
  /\ calls' = Append(calls, Call("BranchLengthDistribution", "optimal", {"input_tree"}, <<>>))
  /\ LET optimal_bl == input.optimal.optimal_bl
         correct_taxa == input.optimal.correct_taxa
         incorrect_taxa == input.optimal.incorrect_taxa
     IN IF correct_taxa + incorrect_taxa = 0
        THEN \* float(0) / 0
             /\ result' = Raised("ZeroDivisionError")
             /\ pc' = "raised"
             /\ UNCHANGED log
        ELSE /\ log' = log \o
                  <<Msg("info", "Optimal branch length is %f.", <<>>, <<optimal_bl>>),
                    Msg("info",
                        "This results in %d correct and %d incorrect taxa (precision = %.2f).",
                        <<>>,
                        <<correct_taxa, incorrect_taxa,
                          Precision(correct_taxa, correct_taxa + incorrect_taxa)>>)>>
             /\ pc' = "return"
             /\ UNCHANGED result
  /\ UNCHANGED redVars
  /\ UNCHANGED <<input, checked, invoked, tree, children, cur_taxa, rank_no, idx,
                 rank_res, out, taxa_out, out_tree>>

\* ---------------------------------------------------------------- validate
\* a rank string that holds more than its prefix
Named(taxon) == Len(taxon) > 3

\* the entries with a number of ranks other than that of the schema
InvalidRanks(t, check_ranks) ==
  {id \in DOMAIN t : check_ranks /\ Len(t[id]) # Len(rank_prefixes)}

\* the entries with a rank string whose prefix is not that of its position
InvalidPrefixes(t, check_prefixes, skipped) ==
  {id \in DOMAIN t \ skipped :
     /\ check_prefixes
     /\ \E r \in 1..Len(t[id]) :
          r > Len(rank_prefixes) \/ Take(t[id][r], 3) # rank_prefixes[r]}

\* the entries with a named species that is no binomial
InvalidSpecies(t, check_species, skipped) ==
  {id \in DOMAIN t \ skipped :
     /\ check_species
     /\ Len(t[id]) >= Len(rank_prefixes)
     /\ Named(t[id][Len(rank_prefixes)])
     /\ ~Contains(Drop(t[id][Len(rank_prefixes)], 3), <<" ">>)}

\* the parents a taxon has in the entries
Parents(t, taxon) ==
  {t[e[1]][e[2] - 1] :
     e \in {x \in (DOMAIN t) \X (2..Len(rank_prefixes)) :
              x[2] <= Len(t[x[1]]) /\ t[x[1]][x[2]] = taxon}}

\* the named taxa with more than one parent
InvalidHierarchies(t, check_hierarchy) ==
  {taxon \in UNION {{t[i][q] : q \in 1..Len(t[i])} : i \in DOMAIN t} :
     check_hierarchy /\ Named(taxon) /\ Cardinality(Parents(t, taxon)) > 1}

\* Taxonomy.validate: the four collections of errors, every entry examined
Taxonomy_validate(t, check_prefixes, check_ranks, check_hierarchy, check_species) ==
  LET invalid_ranks == InvalidRanks(t, check_ranks) IN
  <<invalid_ranks,
    InvalidPrefixes(t, check_prefixes, invalid_ranks),
    InvalidSpecies(t, check_species, invalid_ranks),
    InvalidHierarchies(t, check_hierarchy)>>

\* the test looking at the incomplete taxonomy strings alone
NoErrors_RanksOnly(errors) == Cardinality(errors[1]) = 0

\* sum([len(e) for e in errors]) == 0
NoErrors(errors) ==
  Cardinality(errors[1]) + Cardinality(errors[2]) + Cardinality(errors[3])
    + Cardinality(errors[4]) = 0

\* what validate logs for the errors found
ValidateReport(errors) ==
  IF NoErrors(errors)
  THEN <<Msg("info", "No errors identified in taxonomy file.", <<>>, <<>>)>>
  ELSE <<Msg("info", "Identified %d incomplete taxonomy strings.", <<>>,
             <<Cardinality(errors[1])>>),
         Msg("info", "Identified %d rank prefix errors.", <<>>,
             <<Cardinality(errors[2])>>),
         Msg("info", "Identified %d invalid species names.", <<>>,
             <<Cardinality(errors[3])>>),
         Msg("info", "Identified %d taxa with multiple parents.", <<>>,
             <<Cardinality(errors[4])>>)>>

\* the errors validate gets for the taxonomy file and the command line
ValidateErrors ==
  Taxonomy_validate(TaxonomyRead(input.taxfile),
                    "no_prefix" \notin options.set,
                    "no_all_ranks" \notin options.set,
                    "no_hierarhcy" \notin options.set,
                    "no_species" \notin options.set)

validate ==
  /\ pc = "validate"
  /\ Handler(<<"taxonomy_file">>,
             Call("Taxonomy", "validate", {"taxonomy_file"}, <<>>),
             ValidateReport(ValidateErrors))

\* ------------------------------------------------------------------ append
\* taxonomy.get(key, []): a missing entry taken for an empty one
taxonomy_get_Empty(taxonomy, key) ==
  IF key \in DOMAIN taxonomy THEN taxonomy[key] ELSE <<>>

\* taxonomy.get(key, None); no list of rank strings is <<None>>
taxonomy_get(taxonomy, key) ==
  IF key \in DOMAIN taxonomy THEN taxonomy[key] ELSE <<None>>

\* the label with the taxonomy put before the original label
AppendLabel_Swapped(label, taxa) == Join(taxa, ";") \o <<"|">> \o label

\* n.label + '|' + ';'.join(taxonomy[n.label])
AppendLabel(label, taxa) == label \o <<"|">> \o Join(taxa, ";")

\* the positions of the leaves of a tree, in the order of leaf_node_iter
RECURSIVE LeafPositions(_, _)
LeafPositions(t, k) ==
  IF k > Len(t) THEN <<>>
  ELSE (IF t[k].is_leaf THEN <<k>> ELSE <<>>) \o LeafPositions(t, k + 1)

Banner(text) ==
  <<Msg("info", "", <<>>, <<>>),
    Msg("info", "****", <<>>, <<>>),
    Msg("info", text, <<>>, <<>>),
    Msg("info", "****", <<>>, <<>>)>>

\* append up to the loop over the leaves: the banner, the two file checks,
\* the taxonomy and the tree read
append ==
  /\ pc = "append"
  /\ LET paths == <<"input_tree", "taxonomy_file">>
         k == FirstMissing(paths)
         banner == Banner(" [PhyloRank - append] Appending taxonomy to extant tree labels.")
     IN /\ checked' = checked \cup {paths[j] : j \in 1..(IF k = 0 THEN Len(paths) ELSE k)}
        /\ IF k = 0
           THEN /\ log' = log \o banner
                /\ pc' = "append_loop"
                /\ UNCHANGED result
           ELSE /\ log' = (log \o banner) \o
                          <<Msg("error", "Input file does not exists: %s", <<paths[k]>>, <<>>)>>
                /\ result' = Exited(1)
                /\ pc' = "exited"
  /\ idx' = 0
  /\ tree' = input.tree
  /\ UNCHANGED redVars
  /\ UNCHANGED <<input, invoked, calls, children, cur_taxa, rank_no, rank_res,
                 out, taxa_out, out_tree>>

\* one turn of `for n in tree.leaf_node_iter()`
append_leaf ==
  /\ pc = "append_loop"
  /\ idx < Len(LeafPositions(tree, 1))
  /\ LET taxonomy == TaxonomyRead(input.taxfile)
         pos == LeafPositions(tree, 1)[idx + 1]
         n == tree[pos]
         taxa_str == taxonomy_get(taxonomy, n.label)
     IN IF taxa_str = <<None>>
        THEN /\ log' = Append(log, Msg("error",
                                       "Taxonomy file does not contain an entry for %s.",
                                       n.label, <<>>))
             /\ result' = Exited(-1)
             /\ pc' = "exited"
             /\ UNCHANGED <<tree, idx>>
        ELSE /\ tree' = [tree EXCEPT ![pos].label = AppendLabel(n.label, taxa_str)]
             /\ idx' = idx + 1
             /\ UNCHANGED <<log, result, pc>>
  /\ UNCHANGED redVars
  /\ UNCHANGED <<input, checked, invoked, calls, children, cur_taxa, rank_no,
                 rank_res, out, taxa_out, out_tree>>

\* append after the loop: the tree written, the last messages
append_write ==
  /\ pc = "append_loop"
  /\ idx = Len(LeafPositions(tree, 1))
  /\ out_tree' = tree
  /\ log' = log \o <<Msg("info", "", <<>>, <<>>),
                     Msg("info", "  Decorated tree written to: %s", <<"output_tree">>, <<>>)>>
  /\ pc' = "return"
  /\ UNCHANGED redVars
  /\ UNCHANGED <<input, checked, invoked, calls, result, tree, children, cur_taxa,
                 rank_no, idx, rank_res, out, taxa_out>>

\* ------------------------------------------------------------- taxon_stats
\* Taxonomy().taxon_children: named taxon -> its named children; the children
\* of a named species are the genomes. Only a taxon with a child is a key.
ChildPairs(t) ==
  {<<t[e[1]][e[2]], t[e[1]][e[2] + 1]>> :
     e \in {x \in (DOMAIN t) \X (1..Len(rank_prefixes)) :
              /\ x[2] + 1 <= Len(t[x[1]])
              /\ Named(t[x[1]][x[2]])
              /\ Named(t[x[1]][x[2] + 1])}}
  \cup
  {<<t[id][Len(rank_prefixes)], id>> :
     id \in {x \in DOMAIN t : /\ Len(t[x]) >= Len(rank_prefixes)
                              /\ Named(t[x][Len(rank_prefixes)])}}

taxon_children(t) ==
  [taxon \in {e[1] : e \in ChildPairs(t)} |->
     {e[2] : e \in {x \in ChildPairs(t) : x[1] = taxon}}]

\* a cell of a table: a text, or a number written with %d or str
Text(s) == [text |-> s, num |-> 0 - 1]
Number(n) == [text |-> <<"%d">>, num |-> n]

\* the header row of taxon_stats
StatsHeader ==
  <<Text(<<"Taxa">>)>> \o
  [i \in 1..(Len(rank_labels) - 1) |-> Text(<<"# named ", rank_labels[i + 1]>>)] \o
  <<Text(<<"# extant taxon with complete taxonomy">>)>>

\* taxon_children[t] of the defaultdict
Lookup(ch, t) == IF t \in DOMAIN ch THEN ch[t] ELSE {}

\* the counts written for a taxon: n turns of the loop over the levels
RECURSIVE LevelCounts(_, _, _)
LevelCounts(ch, next_taxa, n) ==
  IF n <= 0 THEN <<>>
  ELSE LET children_taxa == UNION {Lookup(ch, t) : t \in next_taxa}
       IN <<Number(Cardinality(children_taxa))>> \o LevelCounts(ch, children_taxa, n - 1)

\* the keys the loop over the levels looks up
RECURSIVE LevelKeys(_, _, _)
LevelKeys(ch, next_taxa, n) ==
  IF n <= 0 THEN {}
  ELSE next_taxa \cup LevelKeys(ch, UNION {Lookup(ch, t) : t \in next_taxa}, n - 1)

\* the loop over the levels stopping one level early:
\* xrange(rank_index[rank_prefix], rank_index['s__'])
Levels_Short(rank_prefix) ==
  rank_index(rank_prefixes[Len(rank_prefixes)]) - rank_index(rank_prefix)

\* the number of turns of the loop over the levels:
\* xrange(rank_index[rank_prefix], rank_index['s__'] + 1)
Levels(rank_prefix) ==
  (rank_index(rank_prefixes[Len(rank_prefixes)]) + 1) - rank_index(rank_prefix)

\* the '-' cells of a row: '\t-' * rank_index[rank_prefix]
Dashes(rank_prefix) == [i \in 1..rank_index(rank_prefix) |-> Text(<<"-">>)]

\* the row written for a taxon of the rank
StatsRow(ch, rank_prefix, taxon) ==
  <<Text(taxon)>> \o Dashes(rank_prefix) \o LevelCounts(ch, {taxon}, Levels(rank_prefix))

\* the taxa of a rank: the keys that start with its prefix, sorted
CurTaxa(ch, rank_prefix) ==
  Sorted({taxon \in DOMAIN ch : StartsWith(taxon, rank_prefix)})

\* taxon_stats up to the loop over the ranks: the file check, the taxonomy
\* read, the children of each taxon, the header written
taxon_stats ==
  /\ pc = "taxon_stats"
  /\ check_file_exists(<<"taxonomy_file">>, "stats_rank")
  /\ IF FirstMissing(<<"taxonomy_file">>) = 0
     THEN /\ children' = taxon_children(TaxonomyRead(input.taxfile))
          /\ out' = <<StatsHeader>>
     ELSE UNCHANGED <<children, out>>
  /\ rank_no' = 0
  /\ UNCHANGED redVars
  /\ UNCHANGED <<input, invoked, calls, tree, cur_taxa, idx, rank_res, taxa_out,
                 out_tree>>

\* the head of one turn of `for rank_prefix in Taxonomy.rank_prefixes`
stats_rank ==
  /\ pc = "stats_rank"
  /\ rank_no < Len(rank_prefixes)
  /\ rank_no' = rank_no + 1
  /\ cur_taxa' = CurTaxa(children, rank_prefixes[rank_no + 1])
  /\ idx' = 0
  /\ pc' = "stats_row"
  /\ UNCHANGED redVars
  /\ UNCHANGED <<input, checked, invoked, calls, log, result, tree, children,
                 rank_res, out, taxa_out, out_tree>>

\* one turn of `for taxon in cur_taxa`, or its end
stats_row ==
  /\ pc = "stats_row"
  /\ IF idx < Len(cur_taxa)
     THEN LET rank_prefix == rank_prefixes[rank_no]
              taxon == cur_taxa[idx + 1]
              keys == LevelKeys(children, {taxon}, Levels(rank_prefix))
          IN /\ out' = Append(out, StatsRow(children, rank_prefix, taxon))
             /\ children' = [t \in DOMAIN children \cup keys |-> Lookup(children, t)]
             /\ idx' = idx + 1
             /\ UNCHANGED pc
     ELSE /\ pc' = "stats_rank"
          /\ UNCHANGED <<out, children, idx>>
  /\ UNCHANGED redVars
  /\ UNCHANGED <<input, checked, invoked, calls, log, result, tree, cur_taxa,
                 rank_no, rank_res, taxa_out, out_tree>>

\* taxon_stats after the loop over the ranks
stats_close ==
  /\ pc = "stats_rank"
  /\ rank_no = Len(rank_prefixes)
  /\ log' = Append(log, Msg("info", "Summary statistics written to: %s",
                            <<"output_file">>, <<>>))
  /\ pc' = "return"
  /\ UNCHANGED redVars
  /\ UNCHANGED <<input, checked, invoked, calls, result, tree, children, cur_taxa,
                 rank_no, idx, rank_res, out, taxa_out, out_tree>>

\* ---------------------------------------------------------------- rank_res
\* a string of digits
IsNumber(s) == s # <<>> /\ \A i \in 1..Len(s) : s[i] \in {"0", "9"}

\* parse_label: (support, taxon name, auxiliary information) of a label
parse_label(label) ==
  LET stripped == Strip(label)
      bar == Find(stripped, "|")
      main == IF bar = 0 THEN stripped ELSE SubSeq(stripped, 1, bar - 1)
      aux == IF bar = 0 THEN None ELSE Drop(stripped, bar)
      colon == Find(main, ":")
  IN IF colon # 0
     THEN <<SubSeq(main, 1, colon - 1), Drop(main, colon), aux>>
     ELSE IF IsNumber(main) THEN <<main, None, aux>>
     ELSE IF main # <<>> THEN <<None, main, aux>>
     ELSE <<None, None, aux>>

\* `not x` for a string or None
Falsy(x) == x = None \/ x = <<>>

\* the prefix of the first element of the name: [...][0][0:3]
LowestRank_First(taxon_name) ==
  LET parts == Split(taxon_name, ";")
  IN Take(Strip(parts[1]), 3)

\* [x.strip() for x in taxon_name.split(';')][-1][0:3]
LowestRank(taxon_name) ==
  LET parts == Split(taxon_name, ";")
  IN Take(Strip(parts[Len(parts)]), 3)

\* rank_res[a][b] += 1
Increment(counts, key) ==
  [k \in DOMAIN counts \cup {key} |->
     (IF k \in DOMAIN counts THEN counts[k] ELSE 0) + (IF k = key THEN 1 ELSE 0)]

\* rank_res[a].get(b, 0)
Count(counts, key) == IF key \in DOMAIN counts THEN counts[key] ELSE 0

\* the ranks counted for a node: none unless the node is labelled, internal
\* and its label holds a taxon name
NodeRanks(node) ==
  IF Falsy(node.label) \/ node.is_leaf THEN <<>>
  ELSE LET taxon_name == parse_label(node.label)[2]
       IN IF Falsy(taxon_name) THEN <<>>
          ELSE SelectSeq(rank_prefixes, LAMBDA rank_prefix : Contains(taxon_name, rank_prefix))

\* the counts after the ranks of a node are added under its lowest rank
RECURSIVE AddRanks(_, _, _)
AddRanks(counts, ranks, lowest_rank) ==
  IF ranks = <<>> THEN counts
  ELSE AddRanks(Increment(counts, <<ranks[1], lowest_rank>>), Tail(ranks), lowest_rank)

\* the rows of the taxa file written for a node
TaxaRows(ranks, lowest_rank, taxon_name) ==
  [i \in 1..Len(ranks) |-> <<ranks[i], lowest_rank, taxon_name>>]

\* rank_res up to the loop over the nodes: the two file checks, the tree read
rank_res_begin ==
  /\ pc = "rank_res"
  /\ check_file_exists(<<"input_tree", "taxonomy_file">>, "res_node")
  /\ tree' = input.tree
  /\ rank_res' = <<>>
  /\ idx' = 1
  /\ UNCHANGED redVars
  /\ UNCHANGED <<input, invoked, calls, children, cur_taxa, rank_no, out,
                 taxa_out, out_tree>>

\* one turn of the loop over the nodes other than the seed node, or its end
res_node ==
  /\ pc = "res_node"
  /\ IF idx < Len(tree)
     THEN LET node == tree[idx + 1]
              ranks == NodeRanks(node)
              taxon_name == parse_label(node.label)[2]
          IN /\ idx' = idx + 1
             /\ IF ranks = <<>>
                THEN UNCHANGED <<rank_res, taxa_out>>
                ELSE /\ rank_res' = AddRanks(rank_res, ranks, LowestRank(taxon_name))
                     /\ taxa_out' =
                          IF "taxa_file" \in options.set
                          THEN taxa_out \o TaxaRows(ranks, LowestRank(taxon_name), taxon_name)
                          ELSE taxa_out
             /\ UNCHANGED pc
     ELSE /\ pc' = "res_line"
          /\ idx' = 0
          /\ UNCHANGED <<rank_res, taxa_out>>
  /\ UNCHANGED redVars
  /\ UNCHANGED <<input, checked, invoked, calls, log, result, tree, children,
                 cur_taxa, rank_no, out, out_tree>>

\* the ranks at which a line of the taxonomy file holds the bare prefix
Singletons(taxonomy) ==
  SelectSeq([i \in 1..Min(Len(taxonomy), Len(rank_prefixes)) |-> i],
            LAMBDA i : taxonomy[i] = rank_prefixes[i])

RECURSIVE AddSingletons(_, _)
AddSingletons(counts, ranks) ==
  IF ranks = <<>> THEN counts
  ELSE AddSingletons(Increment(counts, <<rank_prefixes[ranks[1]], rank_prefixes[Len(rank_prefixes)]>>),
                     Tail(ranks))

\* one turn of `for line in open(options.taxonomy_file)`; a line with fewer
\* fields than ranks ends the run with an IndexError
res_line ==
  /\ pc = "res_line"
  /\ idx < Len(input.taxfile)
  /\ LET line == Line(idx + 1, input.taxfile[idx + 1])
         line_split == Split(line, "\t")
         taxonomy == Split(line_split[2], ";")
         ranks == Singletons(taxonomy)
     IN /\ rank_res' = AddSingletons(rank_res, ranks)
        /\ taxa_out' =
             IF "taxa_file" \in options.set
             THEN taxa_out \o
                  [i \in 1..Len(ranks) |->
                     <<rank_prefixes[ranks[i]], rank_prefixes[Len(rank_prefixes)],
                       taxonomy[ranks[i]]>>]
             ELSE taxa_out
        /\ IF Len(taxonomy) < Len(rank_prefixes)
           THEN /\ result' = Raised("IndexError")
                /\ pc' = "raised"
                /\ UNCHANGED idx
           ELSE /\ idx' = idx + 1
                /\ UNCHANGED <<result, pc>>
  /\ UNCHANGED redVars
  /\ UNCHANGED <<input, checked, invoked, calls, log, tree, children, cur_taxa,
                 rank_no, out, out_tree>>

\* the table of rank_res: a row for each lowest rank and a column for each
\* rank, from phylum to species; the cells above the diagonal are '-'
ResTable(counts) ==
  LET ranks == Tail(rank_prefixes) IN
  <<<<Text(<<"Category">>)>> \o [j \in 1..Len(ranks) |-> Text(<<rank_labels[j + 1]>>)]>> \o
  [i \in 1..Len(ranks) |->
     <<Text(<<rank_labels[i + 1]>>)>> \o
     [j \in 1..Len(ranks) |->
        IF i >= j THEN Number(Count(counts, <<ranks[j], ranks[i]>>)) ELSE Text(<<"-">>)]]

\* rank_res after the loop over the lines: the table written
res_write ==
  /\ pc = "res_line"
  /\ idx = Len(input.taxfile)
  /\ out' = ResTable(rank_res)
  /\ log' = log \o Done
  /\ pc' = "return"
  /\ UNCHANGED redVars
  /\ UNCHANGED <<input, checked, invoked, calls, result, tree, children, cur_taxa,
                 rank_no, idx, rank_res, taxa_out, out_tree>>

\* -------------------------------------------------------------- RED engine
\* the rooted trees of n nodes: node 1 is the root, the parent of a node comes
\* before it, every branch has a length, that of the root being 0
RedTrees(n, maxlen) ==
  {[parent |-> p, length |-> l] :
     p \in {f \in [1..n -> 0..n] : f[1] = 0 /\ \A i \in 2..n : f[i] \in 1..(i - 1)},
     l \in {f \in [1..n -> 0..maxlen] : f[1] = 0}}

Kids(t, i) == {c \in 1..Len(t.parent) : t.parent[c] = i}

RECURSIVE SumOver(_, _)
SumOver(S, f) ==
  IF S = {} THEN 0
  ELSE LET x == CHOOSE y \in S : TRUE IN f[x] + SumOver(S \ {x}, f)

RECURSIVE Gcd(_, _)
Gcd(a, b) == IF b = 0 THEN a ELSE Gcd(b, a % b)

\* the fraction n / d in lowest terms, d > 0
Frac(n, d) == LET g == Gcd(n, d) IN <<n \div g, d \div g>>

\* a <= b for fractions
FracLeq(a, b) == a[1] * b[2] <= b[1] * a[2]

\* the distances from a node to the leaves below it, given those of its
\* children: <<their sum, the number of leaves>>; a leaf is at 0 from itself
MeanDist(t, md, i) ==
  IF Kids(t, i) = {} THEN <<0, 1>>
  ELSE <<SumOver(Kids(t, i), [c \in Kids(t, i) |-> md[c][1] + t.length[c] * md[c][2]]),
         SumOver(Kids(t, i), [c \in Kids(t, i) |-> md[c][2]])>>

\* the fraction taken for 1 when branch length and mean distance are both 0
Fraction_ZeroIsOne(bl, md) ==
  IF bl * md[2] + md[1] = 0 THEN <<1, 1>>
  ELSE Frac(bl * md[2], bl * md[2] + md[1])

\* branch_length / (branch_length + mean distance to the leaves), 0 when both
\* are 0
Fraction(bl, md) ==
  IF bl * md[2] + md[1] = 0 THEN <<0, 1>>
  ELSE Frac(bl * md[2], bl * md[2] + md[1])

\* RED(node) = RED(parent) + fraction * (1 - RED(parent))
RelDist(x, f) == Frac(x[1] * f[2] + f[1] * (x[2] - x[1]), x[2] * f[2])

\* one step of the bottom-up pass: the children of a node come after it
mean_pass ==
  /\ rpc = "post"
  /\ IF rnode >= 1
     THEN /\ mean_dist' = [mean_dist EXCEPT ![rnode] = MeanDist(rtree, mean_dist, rnode)]
          /\ rnode' = rnode - 1
          /\ UNCHANGED rpc
     ELSE /\ rpc' = "pre"
          /\ rnode' = 1
          /\ UNCHANGED mean_dist
  /\ UNCHANGED <<rtree, rel_dist>>
  /\ UNCHANGED mainVars

\* one step of the top-down pass: the root has RED 0
red_pass ==
  /\ rpc = "pre"
  /\ IF rnode <= Len(rtree.parent)
     THEN /\ rel_dist' =
               [rel_dist EXCEPT ![rnode] =
                  IF rtree.parent[rnode] = 0 THEN <<0, 1>>
                  ELSE RelDist(rel_dist[rtree.parent[rnode]],
                               Fraction(rtree.length[rnode], mean_dist[rnode]))]
          /\ rnode' = rnode + 1
          /\ UNCHANGED rpc
     ELSE /\ rpc' = "done"
          /\ UNCHANGED <<rel_dist, rnode>>
  /\ UNCHANGED <<rtree, mean_dist>>
  /\ UNCHANGED mainVars

\* ---------------------------------------------------------- specifications
\* the nodes of the trees of rank_res, other than the seed node
ResNodes ==
  {Node(None, FALSE),
   Node(<<"9", "0">>, FALSE),
   Node(R(6, nA), TRUE),
   Node(R(2, nA), FALSE),
   Node(<<"9", "0", ":">> \o R(1, nA) \o <<";">> \o R(3, nA) \o <<";", " ">> \o R(4, nA), FALSE),
   Node(R(4, nA) \o <<";">> \o R(2, nA), FALSE)}

\* the trees of rank_res: a labelled seed node and at most n other nodes
ResTrees(n) ==
  UNION {{<<Node(R(1, nA), FALSE)>> \o f : f \in [1..k -> ResNodes]} : k \in 0..n}

AllInputs ==
  UNION {Plain(cmd) : cmd \in (Commands \cup UnknownCommands) \
                              {"validate", "append", "taxon_stats", "rank_res", "bl_optimal"}}
  \cup Inputs("bl_optimal", {<<seed_node>>}, {<<>>}, Optimals(MaxTaxa))
  \cup Inputs("validate", {<<seed_node>>},
              TaxFiles({LinA, LinAb, LinB, LinTwoParents, LinNoGenus, LinNovel, LinShort,
                        LinBadPrefix, LinBadSpecies}, MaxRows),
              {NoOptimal})
  \cup Inputs("append", AppendTrees(MaxLeaves),
              TaxFiles({LinA, LinNoGenus, LinShort}, MaxRows), {NoOptimal})
  \cup Inputs("taxon_stats", {<<seed_node>>},
              TaxFiles({LinA, LinAb, LinB, LinTwoParents, LinNoGenus, LinNovel}, MaxRows),
              {NoOptimal})
  \cup Inputs("rank_res", ResTrees(MaxNodes), TaxFiles({LinNovel, LinShort}, MaxRows),
              {NoOptimal})

RedIdle ==
  /\ rtree = [parent |-> <<>>, length |-> <<>>]
  /\ mean_dist = <<>>
  /\ rel_dist = <<>>
  /\ rpc = "idle"
  /\ rnode = 0

Init ==
  /\ \E in \in AllInputs : Start(in)
  /\ RedIdle

Next ==
  \/ parse_options
  \/ return_0
  \/ outliers
  \/ scale
  \/ tree_diff
  \/ dist_plot
  \/ decorate
  \/ pull
  \/ validate
  \/ append
  \/ append_leaf
  \/ append_write
  \/ taxon_stats
  \/ stats_rank
  \/ stats_row
  \/ stats_close
  \/ robustness_plot
  \/ rd_ranks
  \/ bl_dist
  \/ bl_optimal
  \/ bl_decorate
  \/ bl_table
  \/ rank_res_begin
  \/ res_node
  \/ res_line
  \/ res_write

Spec == Init /\ [][Next]_vars

\* the RED engine on every tree within the bounds
InitRED ==
  /\ \E n \in 1..MaxRedNodes : \E t \in RedTrees(n, MaxLength) :
       /\ rtree = t
       /\ mean_dist = [i \in 1..n |-> <<0, 1>>]
       /\ rel_dist = [i \in 1..n |-> <<0, 1>>]
       /\ rnode = n
  /\ rpc = "post"
  /\ Start([options |-> [subparser_name |-> "outliers", set |-> {}, given |-> {}],
            fs |-> {}, tree |-> <<seed_node>>, taxfile |-> <<>>, optimal |-> NoOptimal])

NextRED == mean_pass \/ red_pass

SpecRED == InitRED /\ [][NextRED]_vars

\* ------------------------------------------------------------ properties
cmd == options.subparser_name

\* the handler of the command has returned to parse_options
Completed == pc \in {"return", "returned"}

\* the log holds a record with this format string
Logged(msg) == \E i \in 1..Len(log) : log[i].msg = msg

\* the numbers of the record with this format string
NumsOf(msg) == log[CHOOSE i \in 1..Len(log) : log[i].msg = msg].nums

\* C7: parse_options calls at most one handler, the one named by
\* options.subparser_name, and returns 0 once it has returned; for a name
\* that is no command it logs an error and ends the process, with no handler
\* called and nothing returned.
C7_OneHandler ==
  /\ Len(invoked) <= 1
  /\ \A i \in 1..Len(invoked) : invoked[i] = cmd
  /\ (cmd \in Commands /\ pc # "start") => invoked = <<cmd>>
  /\ pc = "returned" => (result = Returned(0) /\ invoked = <<cmd>>)
  /\ result.kind = "return" => pc = "returned"
  /\ (cmd \notin Commands) =>
       /\ invoked = <<>>
       /\ calls = <<>>
       /\ result.kind # "return"
       /\ pc \in {"start", "exited"}
       /\ pc = "exited" =>
            /\ result.kind = "exit"
            /\ log = <<Msg("error", "  [Error] Unknown PhyloRank command: %s", <<cmd>>, <<>>)>>

\* C7 witness: the last branch of the chain has run and parse_options has
\* returned 0.
C7_Witness == pc = "returned" /\ cmd = "bl_table" /\ Len(calls) = 1

\* C10: the call of DecorateTree.run carries the three switches in the order
\* percentile, relative divergence, prediction, each one set exactly when its
\* own suppression option is not.
C10_DecorateSwitches ==
  \A i \in 1..Len(calls) :
    calls[i].component = "DecorateTree" =>
      /\ Len(calls[i].args) = 3
      /\ calls[i].args[1] = ~("no_percentile" \in options.set)
      /\ calls[i].args[2] = ~("no_relative_divergence" \in options.set)
      /\ calls[i].args[3] = ~("no_prediction" \in options.set)

\* C10 witness: decorate has called the component with the relative
\* divergence alone suppressed.
C10_Witness ==
  /\ cmd = "decorate"
  /\ options.set = {"no_relative_divergence"}
  /\ Len(calls) = 1
  /\ calls[1].args = <<TRUE, FALSE, TRUE>>

\* C2: bl_optimal never divides by zero: with zero correct and zero incorrect
\* taxa it ends without an exception and the precision is reported as
\* undefined; for any other counts the precision reported is
\* correct / (correct + incorrect), to the nearest hundredth.
C2_PrecisionDefined ==
  (cmd = "bl_optimal" /\ pc # "start" /\ pc # "bl_optimal") =>
    LET c == input.optimal.correct_taxa
        i == input.optimal.incorrect_taxa
        msg == "This results in %d correct and %d incorrect taxa (precision = %.2f)."
    IN /\ result.kind # "raise"
       /\ Logged(msg)
       /\ c + i > 0 =>
            /\ 2 * (100 * c - NumsOf(msg)[3] * (c + i)) <= c + i
            /\ 2 * (NumsOf(msg)[3] * (c + i) - 100 * c) <= c + i

\* C4: whenever a component is called, the existence of every input file
\* handed to it has been checked before.
C4_CheckedBeforeCall ==
  \A i \in 1..Len(calls) : calls[i].files \subseteq checked

\* the entries of a complete, flawless lineage
Flawless == {LinA, LinAb, LinB}

\* the taxonomy's only defect is one entry with 4 of the 7 rank fields
OnlyOneShort ==
  /\ Cardinality({k \in 1..Len(input.taxfile) : input.taxfile[k] = LinShort}) = 1
  /\ \A k \in 1..Len(input.taxfile) : input.taxfile[k] \in Flawless \cup {LinShort}

IncompleteMsg == "Identified %d incomplete taxonomy strings."
PrefixMsg == "Identified %d rank prefix errors."
SpeciesMsg == "Identified %d invalid species names."
ParentsMsg == "Identified %d taxa with multiple parents."
NoErrorsMsg == "No errors identified in taxonomy file."

\* what C5 says of a run of validate, but for the taxonomy with one short
\* entry: 'No errors identified' is logged exactly when the four collections
\* are all empty; otherwise one count is logged per category, each the size
\* of its collection; and the entries are all examined: each entry with a
\* number of ranks other than 7 is counted when that check is enabled.
ValidateReports ==
  LET errors == ValidateErrors
      t == TaxonomyRead(input.taxfile)
      empty == \A e \in 1..4 : errors[e] = {}
  IN /\ Logged(NoErrorsMsg) <=> empty
     /\ ~empty =>
          /\ NumsOf(IncompleteMsg) = <<Cardinality(errors[1])>>
          /\ NumsOf(PrefixMsg) = <<Cardinality(errors[2])>>
          /\ NumsOf(SpeciesMsg) = <<Cardinality(errors[3])>>
          /\ NumsOf(ParentsMsg) = <<Cardinality(errors[4])>>
     /\ empty => Len(log) = 1
     /\ ~empty => Len(log) = 4
     /\ "no_all_ranks" \notin options.set =>
          Cardinality(errors[1]) =
            Cardinality({k \in 1..Len(input.taxfile) :
                           Len(input.taxfile[k]) # Len(rank_prefixes)})

\* exactly one incomplete taxonomy string and no prefix error are reported
OneIncompleteNoPrefix ==
  /\ Logged(IncompleteMsg) /\ NumsOf(IncompleteMsg) = <<1>>
  /\ Logged(PrefixMsg) /\ NumsOf(PrefixMsg) = <<0>>

Mapping == TaxonomyRead(input.taxfile)

\* the leaves of the input tree
Leaves == LeafPositions(input.tree, 1)

\* the leaves of the input tree without an entry in the taxonomy mapping
Unmapped == {j \in 1..Len(Leaves) : input.tree[Leaves[j]].label \notin DOMAIN Mapping}

\* append has passed its file checks
Appending == cmd = "append" /\ pc \notin {"start", "append"} /\ checked = InputPaths("append")

\* C1: when every leaf of the input tree has an entry in the taxonomy
\* mapping, append writes a tree with the same nodes, the same leaves and, for
\* each leaf, the label made of its original label, then '|', then its rank
\* strings separated by ';' in the order of the taxonomy.
C1_AppendLabels ==
  (Appending /\ Unmapped = {} /\ Completed) =>
    /\ out_tree # None
    /\ Len(out_tree) = Len(input.tree)
    /\ LeafPositions(out_tree, 1) = Leaves
    /\ \A j \in 1..Len(Leaves) :
         LET original == input.tree[Leaves[j]].label
             written == out_tree[Leaves[j]].label
         IN /\ Len(written) > Len(original)
            /\ SubSeq(written, 1, Len(original)) = original
            /\ written[Len(original) + 1] = "|"
            /\ Split(Drop(written, Len(original) + 1), ";") = Mapping[original]

\* C1 witness: append has written a tree of two leaves with different labels,
\* both in the taxonomy.
C1_Witness ==
  /\ Appending /\ Completed
  /\ out_tree # None
  /\ Len(Leaves) = 2
  /\ input.tree[Leaves[1]].label # input.tree[Leaves[2]].label
  /\ Unmapped = {}

\* C3: when a leaf of the tree has no entry in the taxonomy mapping, append
\* never gets past the first such leaf and never writes the tree; it ends at
\* that leaf with a non-zero status, the last message an error naming the
\* leaf, the leaves before it relabelled and that leaf and the later ones
\* left as they were.
C3_AppendHalts ==
  (Appending /\ Unmapped # {}) =>
    LET first == CHOOSE j \in Unmapped : \A k \in Unmapped : j <= k
    IN /\ out_tree = None
       /\ pc \in {"append_loop", "exited"}
       /\ idx < first
       /\ \A j \in first..Len(Leaves) : tree[Leaves[j]].label = input.tree[Leaves[j]].label
       /\ pc = "exited" =>
            /\ idx = first - 1
            /\ \A j \in 1..(first - 1) :
                 tree[Leaves[j]].label # input.tree[Leaves[j]].label
            /\ result.kind = "exit"
            /\ result.value # 0
            /\ log[Len(log)] =
                 Msg("error", "Taxonomy file does not contain an entry for %s.",
                     input.tree[Leaves[first]].label, <<>>)

\* C3 witness: append has ended at the second leaf, the first one relabelled
\* before.
C3_Witness ==
  /\ Appending
  /\ pc = "exited"
  /\ Unmapped = {2}
  /\ tree[Leaves[1]].label # input.tree[Leaves[1]].label

\* the rank of a taxon, an index of rank_prefixes; 0 for none
RankOf(taxon) ==
  IF \E i \in 1..Len(rank_prefixes) : rank_prefixes[i] = Take(taxon, 3)
  THEN CHOOSE i \in 1..Len(rank_prefixes) : rank_prefixes[i] = Take(taxon, 3)
  ELSE 0

\* the taxa and genomes k levels below a taxon, by the children of the
\* taxonomy
RECURSIVE Below(_, _, _)
Below(pairs, taxon, k) ==
  IF k = 0 THEN {taxon}
  ELSE LET above == Below(pairs, taxon, k - 1)
       IN UNION {{e[2] : e \in {x \in pairs : x[1] = a}} : a \in above}

\* C8: every row of the table of taxon_stats has as many cells as the header;
\* the row of a taxon of rank index r holds its name, r cells '-' and then one
\* count per level down to the genomes, the k-th the number of distinct
\* children k levels below the taxon; the rows follow the order of the ranks
\* and, within a rank, the order of the names.
C8_StatsTable ==
  (cmd = "taxon_stats" /\ out # <<>>) =>
    /\ Len(out[1]) = Len(rank_labels) + 1
    /\ \A k \in 2..Len(out) :
         LET row == out[k]
             taxon == row[1].text
             r == RankOf(taxon) - 1
             pairs == ChildPairs(TaxonomyRead(input.taxfile))
         IN /\ r >= 0
            /\ Len(row) = Len(out[1])
            /\ \A c \in 2..(r + 1) : row[c] = Text(<<"-">>)
            /\ \A c \in (r + 2)..Len(row) :
                 row[c] = Number(Cardinality(Below(pairs, taxon, c - (r + 1))))
            /\ k > 2 =>
                 LET before == out[k - 1][1].text
                 IN \/ RankOf(before) < RankOf(taxon)
                    \/ RankOf(before) = RankOf(taxon) /\ StrLess(before, taxon)

\* C8 witness: taxon_stats has written the table of two lineages that part at
\* the family, so that an order has two families and two rows share a rank.
C8_Witness ==
  /\ cmd = "taxon_stats"
  /\ pc = "returned"
  /\ input.taxfile = <<LinB, LinA>>
  /\ \E k \in 2..Len(out) : out[k][1].text = R(4, nA) /\ out[k][6].num = 2
  /\ \E k \in 3..Len(out) : RankOf(out[k][1].text) = RankOf(out[k - 1][1].text)

\* the text after the last ';' of a taxon name
LastPart(name) ==
  LET semis == {i \in 1..Len(name) : name[i] = ";"}
  IN IF semis = {} THEN name
     ELSE Drop(name, CHOOSE i \in semis : \A j \in semis : j <= i)

\* a node adds a count under <<rank, lowest rank>>
Contributes(node, key) ==
  /\ ~Falsy(node.label)
  /\ ~node.is_leaf
  /\ LET name == parse_label(node.label)[2]
     IN /\ ~Falsy(name)
        /\ \E i \in 1..Len(rank_prefixes) : rank_prefixes[i] = key[1]
        /\ Contains(name, key[1])
        /\ key[2] = Take(Strip(LastPart(name)), 3)

\* a taxon name lists its ranks from the most general to the most specific
Ordered(name) ==
  LET parts == Split(name, ";")
  IN /\ \A i \in 1..Len(parts) : RankOf(Strip(parts[i])) # 0
     /\ \A i \in 1..(Len(parts) - 1) : RankOf(Strip(parts[i])) < RankOf(Strip(parts[i + 1]))

\* the taxon names of the nodes that are counted are all ordered
OrderedTree ==
  \A k \in 2..Len(input.tree) :
    NodeRanks(input.tree[k]) # <<>> => Ordered(parse_label(input.tree[k].label)[2])

\* the ranks of the table, phylum to species
TableRanks == {rank_prefixes[i] : i \in 2..Len(rank_prefixes)}

\* C9: after the loop over the nodes the counts of rank_res are those of the
\* labelled internal nodes other than the seed node whose label holds a taxon
\* name, one per rank prefix found in the name, under the prefix of its last
\* element; and when the names are ordered, each count recorded for a rank
\* from phylum to species is in a cell of the table that holds a number, at
\* the row of its lowest rank, which is at or below its column.
C9_RankRes ==
  (cmd = "rank_res") =>
    /\ (pc = "res_line" /\ idx = 0) =>
         /\ \A key \in DOMAIN rank_res :
              rank_res[key] =
                Cardinality({k \in 2..Len(tree) : Contributes(tree[k], key)})
         /\ \A k \in 2..Len(tree) : \A i \in 1..Len(rank_prefixes) :
              \A key \in {<<rank_prefixes[i],
                            Take(Strip(LastPart(parse_label(tree[k].label)[2])), 3)>>} :
                Contributes(tree[k], key) => key \in DOMAIN rank_res
    /\ (out # <<>> /\ OrderedTree) =>
         \A key \in DOMAIN rank_res :
           key[1] \in TableRanks =>
             /\ key[2] \in TableRanks
             /\ rank_index(key[2]) >= rank_index(key[1])
             /\ out[rank_index(key[2]) + 1][rank_index(key[1]) + 1] = Number(rank_res[key])

\* C9 witness: rank_res has written the table for a tree with an ordered name
\* of several ranks and a line of the taxonomy with bare prefixes, a count
\* lying below the diagonal.
C9_Witness ==
  /\ cmd = "rank_res"
  /\ pc = "returned"
  /\ OrderedTree
  /\ Count(rank_res, <<rank_prefixes[3], rank_prefixes[4]>>) = 1
  /\ Count(rank_res, <<rank_prefixes[2], rank_prefixes[7]>>) = 1
  /\ out[4][3] = Number(1)

\* C6: when the RED engine is done, the RED of the root is 0, every RED lies
\* in [0, 1], no node has a RED below that of its parent, and a node on a
\* branch of length 0 has the RED of its parent.
C6_RED ==
  rpc = "done" =>
    /\ rel_dist[1] = <<0, 1>>
    /\ \A i \in 1..Len(rtree.parent) :
         /\ rel_dist[i][2] > 0
         /\ 0 <= rel_dist[i][1]
         /\ rel_dist[i][1] <= rel_dist[i][2]
         /\ i > 1 =>
              /\ FracLeq(rel_dist[rtree.parent[i]], rel_dist[i])
              /\ rtree.length[i] = 0 => rel_dist[i] = rel_dist[rtree.parent[i]]

\* C6 witness: the engine is done with a tree that has a leaf on a branch of
\* length 0 below a node with a RED strictly between 0 and 1.
C6_Witness ==
  /\ rpc = "done"
  /\ \E i \in 2..Len(rtree.parent) :
       /\ rtree.length[i] = 0
       /\ Kids(rtree, i) = {}
       /\ 0 < rel_dist[rtree.parent[i]][1]
       /\ rel_dist[rtree.parent[i]][1] < rel_dist[rtree.parent[i]][2]

====
